---------------------------- MODULE Spec2Model ----------------------------
(***************************************************************************)
(* A model of fbhash (erwinvaneijk/fbhash): the rolling chunker, the       *)
(* bounded top-k heap, the corpus model (DocumentCollection), the parallel *)
(* index pipeline and the query pipeline.                                  *)
(*                                                                         *)
(* u64 values are 4-tuples of 16-bit limbs, least significant limb first,  *)
(* so that every intermediate of the 64-bit arithmetic fits a TLC integer. *)
(***************************************************************************)
EXTENDS Integers, Sequences, FiniteSets, TLC

(***************************************************************************)
(* Bounds of the model.                                                    *)
(***************************************************************************)
\* most input paths of one index_paths call
MaxPaths == 2

\* most input paths of an index_paths call that is followed under fairness
MaxFairPaths == 1

\* most input paths of the index runs that wrote the files a query reads
MaxCorpusPaths == 1

\* most calls made on one DocumentCollection
MaxOps == 3

\* most query files of one query_for_results call
MaxQueries == 2

\* largest number_of_results of a query
MaxResults == 3

\* longest file the chunker specification reads
MaxFileLen == 8

\* largest capacity of the heap
MaxCapacity == 3

\* scores (distances) are 1..MaxScore
MaxScore == 4

\* most calls of Heap::insert
MaxInserts == 5

\* most chunk keys of the sparse vectors given to cosine_similarity
MaxKeys == 2

\* files merged into each of the two collections that are compared
MaxEqFiles == 2

(***************************************************************************)
(* u64 arithmetic (Rust's u64, release semantics: wrapping).               *)
(***************************************************************************)
U64Zero == <<0, 0, 0, 0>>

U64One == <<1, 0, 0, 0>>

\* a byte (or any value below 2^16) widened to u64: `x as u64`
U64FromSmall(b) == <<b, 0, 0, 0>>

\* the exact product s * x for a scalar s < 2^15: five limbs, the fifth is
\* what does not fit 64 bits
MulSmallExact(s, x) ==
    LET p1 == s * x[1]
        p2 == s * x[2] + (p1 \div 65536)
        p3 == s * x[3] + (p2 \div 65536)
        p4 == s * x[4] + (p3 \div 65536)
    IN  <<p1 % 65536, p2 % 65536, p3 % 65536, p4 % 65536, p4 \div 65536>>

\* the exact sum x + y: five limbs, the fifth is the carry out of 64 bits
AddExact(x, y) ==
    LET s1 == x[1] + y[1]
        s2 == x[2] + y[2] + (s1 \div 65536)
        s3 == x[3] + y[3] + (s2 \div 65536)
        s4 == x[4] + y[4] + (s3 \div 65536)
    IN  <<s1 % 65536, s2 % 65536, s3 % 65536, s4 % 65536, s4 \div 65536>>

\* the low 64 bits of a five-limb value
Low64(x5) == <<x5[1], x5[2], x5[3], x5[4]>>

\* s * x on u64, s a small scalar
u64_mul_small(s, x) == Low64(MulSmallExact(s, x))

\* x + y on u64
u64_add(x, y) == Low64(AddExact(x, y))

\* u64::wrapping_sub
wrapping_sub(x, y) ==
    LET d1 == x[1] - y[1]
        b1 == IF d1 < 0 THEN 1 ELSE 0
        d2 == x[2] - y[2] - b1
        b2 == IF d2 < 0 THEN 1 ELSE 0
        d3 == x[3] - y[3] - b2
        b3 == IF d3 < 0 THEN 1 ELSE 0
        d4 == x[4] - y[4] - b3
    IN  <<d1 % 65536, d2 % 65536, d3 % 65536, d4 % 65536>>

\* x < y on u64
u64_lt(x, y) ==
    \/ x[4] < y[4]
    \/ x[4] = y[4] /\ x[3] < y[3]
    \/ x[4] = y[4] /\ x[3] = y[3] /\ x[2] < y[2]
    \/ x[4] = y[4] /\ x[3] = y[3] /\ x[2] = y[2] /\ x[1] < y[1]

\* x % m on u64, m > 2^59: at most 31 subtractions
RECURSIVE u64_rem(_, _)
u64_rem(x, m) == IF u64_lt(x, m) THEN x ELSE u64_rem(wrapping_sub(x, m), m)

(***************************************************************************)
(* f64: fixed-point numbers with four decimals (1.0 is 10000), every       *)
(* operation rounding to four decimals, with NaN and the two infinities.   *)
(***************************************************************************)
NaN == -2000000000

PosInf == 1000000000

NegInf == -1000000000

f64_is_finite(a) == a # NaN /\ a # PosInf /\ a # NegInf

\* a < b on f64: false when either is NaN
f64_lt(a, b) == a # NaN /\ b # NaN /\ a < b

\* a > b on f64: false when either is NaN
f64_gt(a, b) == a # NaN /\ b # NaN /\ a > b

\* a * b on finite f64
f64_mul(a, b) == (a * b + 5000) \div 10000

\* a / b on finite f64: 0/0 is NaN, x/0 an infinity
f64_div(a, b) ==
    IF b = 0
    THEN (IF a = 0 THEN NaN ELSE IF a > 0 THEN PosInf ELSE NegInf)
    ELSE (a * 10000) \div b

\* the largest r in lo..hi with r * r <= x
RECURSIVE isqrt_between(_, _, _)
isqrt_between(x, lo, hi) ==
    IF lo >= hi THEN lo
    ELSE LET mid == (lo + hi + 1) \div 2
         IN  IF mid * mid <= x THEN isqrt_between(x, mid, hi)
             ELSE isqrt_between(x, lo, mid - 1)

\* a.sqrt() on finite f64, a >= 0
f64_sqrt(a) == isqrt_between(a * 10000, 0, 46340)

\* 1.0 - a on f64
f64_one_minus(a) ==
    IF a = NaN THEN NaN
    ELSE IF a = PosInf THEN NegInf
    ELSE IF a = NegInf THEN PosInf
    ELSE 10000 - a

(***************************************************************************)
(* chunker.rs: constants                                                   *)
(***************************************************************************)
CHUNK_SIZE == 7

A == 255

\* 801385653117583579 = 0x0B1F18016E2B00DB
MODULUS == <<219, 28203, 6145, 2847>>

\* A * A * ... * A (k factors) on u64
RECURSIVE A_pow_loop(_)
A_pow_loop(k) == IF k = 0 THEN U64One ELSE u64_mul_small(A, A_pow_loop(k - 1))

\* the powers of A the chunker uses, computed once
A_powers == [k \in 0..CHUNK_SIZE |-> A_pow_loop(k)]

\* A.pow(k) on u64
A_pow(k) == A_powers[k]

\* max_a one power long
max_a_long == u64_mul_small(A, A_pow(CHUNK_SIZE))

\* max_a one power short
max_a_short == A_pow(CHUNK_SIZE - 1)

\* ChunkContent::new: max_a = A.pow(CHUNK_SIZE)
max_a == A_pow(CHUNK_SIZE)

\* vec![0; CHUNK_SIZE]
ZeroWindow == [i \in 1..CHUNK_SIZE |-> 0]

\* the bytes the chunker specification's files are made of: zero, 'y' and the
\* largest byte
Bytes == {0, 121, 255}

Min(a, b) == IF a < b THEN a ELSE b

\* every sequence over S of length at most n
SeqsUpTo(S, n) == UNION {[1..k -> S] : k \in 0..n}

VARIABLES
    \* ---- chunker.rs: one ChunkIterator over one open file
    file,           \* the bytes of the file
    pos,            \* the read position of the File
    chunk_content,  \* ChunkContent: current_number, content
    last_chunk,     \* Option<Chunk>
    emitted,        \* history: every chunk a call of next() returned
    collected,      \* history: the chunks returned before the first None
    ended,          \* history: why next() first returned None: "no", "eof", "error"
    first_read,     \* history: the bytes the first read returned, -1 before it
    \* ---- heap.rs: one Heap
    heap_data,      \* Heap::data without its unused element 0: [score, item]
    heap_capacity,  \* Heap::capacity
    inserted,       \* history: every (score, item) passed to insert
    \* ---- index.rs: one call of index_paths
    paths,          \* the input paths
    unreadable,     \* the files that File::open fails on
    pc,             \* where index_paths is
    cur,            \* the index of the path the loop of index_paths is at
    dir_files,      \* index_directory: files
    slots,          \* index_directory: what the map closure returned per file
    channel,        \* index_directory: the messages sent and not yet received
    senders,        \* index_directory: whether a Sender of the channel is alive
    dir_results,    \* index_directory: results
    document_collection,    \* index_paths: document_collection
    results,        \* index_paths: results
    merged,         \* history: the names merged by update_collection, in order
    state_file,     \* the state file
    reference_collection,   \* index_paths: reference_collection
    updated_results,        \* index_paths: updated_results, per document
    database,       \* the database file
    \* ---- query.rs: one call of query_for_results
    q_pc,           \* where query_for_results is
    q_state,        \* the content of the file at state_path
    q_database,     \* the documents in the file at database_path
    q_files,        \* files: the query files
    q_k,            \* number_of_results
    q_loaded,       \* history: both files were read
    q_collection,   \* document_collection, once read
    q_documents,    \* documents, once read
    q_error,        \* the error query_for_results returned
    q_index,        \* the index of the query file the loop is at
    q_output,       \* what was printed: per query file, its result lines
    q_searches,     \* history: per ranked_search call, the scores it handed
                    \* to the heap and what it returned
    \* ---- similarities.rs: one DocumentCollection under add_file and
    \* update_collection
    c_collection,   \* the DocumentCollection
    c_ops,          \* history: the calls made, their arguments and results
    \* ---- similarities.rs: one call of cosine_similarity
    cs_pc,          \* "idle", "call" before the call, "done" after it
    cs_vec1,        \* vec1
    cs_vec2,        \* vec2
    cs_norms,       \* (norm_a, norm_b, norm_prod) after the fold
    cs_result,      \* what the call returned
    \* ---- similarities.rs: one comparison of two DocumentCollection values
    eq_pc,          \* "idle", "call" before the comparison, "done" after it
    eq_self,        \* self
    eq_other,       \* other
    eq_ret          \* what == returned

chunkerVars ==
    <<file, pos, chunk_content, last_chunk, emitted, collected, ended, first_read>>

heapVars == <<heap_data, heap_capacity, inserted>>

indexVars ==
    <<paths, unreadable, pc, cur, dir_files, slots, channel, senders, dir_results,
      document_collection, results, merged, state_file, reference_collection,
      updated_results, database>>

queryVars ==
    <<q_pc, q_state, q_database, q_files, q_k, q_loaded, q_collection,
      q_documents, q_error, q_index, q_output, q_searches>>

collectionVars == <<c_collection, c_ops>>

cosineVars == <<cs_pc, cs_vec1, cs_vec2, cs_norms, cs_result>>

eqVars == <<eq_pc, eq_self, eq_other, eq_ret>>

vars ==
    <<chunkerVars, heapVars, indexVars, queryVars, collectionVars, cosineVars,
      eqVars>>

\* what the chunker, the heap, index_paths, query_for_results, the calls on
\* a DocumentCollection leave alone
notChunkerVars ==
    <<heapVars, indexVars, queryVars, collectionVars, cosineVars,
      eqVars>>

notHeapVars ==
    <<chunkerVars, indexVars, queryVars, collectionVars, cosineVars,
      eqVars>>

notIndexVars ==
    <<chunkerVars, heapVars, queryVars, collectionVars, cosineVars,
      eqVars>>

notQueryVars ==
    <<chunkerVars, heapVars, indexVars, collectionVars, cosineVars,
      eqVars>>

notCollectionVars ==
    <<chunkerVars, heapVars, indexVars, queryVars, cosineVars,
      eqVars>>

notCosineVars ==
    <<chunkerVars, heapVars, indexVars, queryVars, collectionVars, eqVars>>

notEqVars ==
    <<chunkerVars, heapVars, indexVars, queryVars, collectionVars, cosineVars>>

EmptyMap == [k \in {} |-> 0]

NoDocument == [file |-> "", chunks |-> <<>>, digest |-> <<>>]

\* DocumentCollection::new
new_collection == [files |-> {}, collection_digests |-> EmptyMap]

\* a file that is not written
NotWritten == [written |-> FALSE, files |-> <<>>, collection_digests |-> <<>>]

NoDatabase == [written |-> FALSE, documents |-> <<>>]

\* the chunker is not in use
ChunkerIdle ==
    /\ file = <<>>
    /\ pos = 0
    /\ chunk_content = [current_number |-> 0, content |-> ZeroWindow]
    /\ last_chunk = [some |-> FALSE, number |-> 0, digest |-> U64Zero]
    /\ emitted = <<>>
    /\ collected = <<>>
    /\ ended = "no"
    /\ first_read = -1

\* the heap is not in use
HeapIdle ==
    /\ heap_data = <<>>
    /\ heap_capacity = 0
    /\ inserted = <<>>

\* index_paths is not running
IndexIdle ==
    /\ paths = <<>>
    /\ unreadable = {}
    /\ pc = "idle"
    /\ cur = 1
    /\ dir_files = <<>>
    /\ slots = <<>>
    /\ channel = <<>>
    /\ senders = FALSE
    /\ dir_results = <<>>
    /\ document_collection = new_collection
    /\ results = <<>>
    /\ merged = <<>>
    /\ state_file = NotWritten
    /\ reference_collection = new_collection
    /\ updated_results = <<>>
    /\ database = NoDatabase

NoError == [kind |-> "", message |-> <<>>]

\* query_for_results is not running
QueryIdle ==
    /\ q_pc = "idle"
    /\ q_state = NotWritten
    /\ q_database = <<>>
    /\ q_files = <<>>
    /\ q_k = 0
    /\ q_loaded = FALSE
    /\ q_collection = new_collection
    /\ q_documents = <<>>
    /\ q_error = NoError
    /\ q_index = 1
    /\ q_output = <<>>
    /\ q_searches = <<>>

\* no call was made on the DocumentCollection
CollectionIdle ==
    /\ c_collection = new_collection
    /\ c_ops = <<>>

NoNorms == [norm_a |-> 0, norm_b |-> 0, norm_prod |-> 0]

\* cosine_similarity is not being called on its own
CosineIdle ==
    /\ cs_pc = "idle"
    /\ cs_vec1 = <<>>
    /\ cs_vec2 = <<>>
    /\ cs_norms = NoNorms
    /\ cs_result = 0

\* no two collections are being compared
EqIdle ==
    /\ eq_pc = "idle"
    /\ eq_self = new_collection
    /\ eq_other = new_collection
    /\ eq_ret = FALSE

(***************************************************************************)
(* chunker.rs: ChunkContent                                                *)
(***************************************************************************)
NoChunk == [some |-> FALSE, number |-> 0, digest |-> U64Zero]

SomeChunk(c) == [some |-> TRUE, number |-> c.number, digest |-> c.digest]

\* the loop of compute_digest from element i on, h the digest so far;
\* k = CHUNK_SIZE - (i - 1) is the loop's counter
RECURSIVE compute_digest_from(_, _, _)
compute_digest_from(content, i, h) ==
    IF i > CHUNK_SIZE THEN h
    ELSE LET k == CHUNK_SIZE - (i - 1)
             elem == content[i]
         IN  compute_digest_from(content, i + 1,
                 u64_rem(u64_add(h, u64_mul_small(elem, A_pow(k - 1))), MODULUS))

compute_digest(content) == compute_digest_from(content, 1, U64Zero)

rehash_digest(digest, old_byte, new_byte) ==
    LET b_i == old_byte
        b_k == U64FromSmall(new_byte)
    IN  u64_rem(u64_add(wrapping_sub(u64_mul_small(A, digest),
                                     u64_mul_small(b_i, max_a)), b_k),
                MODULUS)

\* ChunkContent::new
NewChunkContent == [current_number |-> 0, content |-> ZeroWindow]

\* ChunkContent::setup: the new ChunkContent and the Chunk it returns
setup(cc, v) ==
    [cc    |-> [cc EXCEPT !.content = v],
     chunk |-> [number |-> cc.current_number, digest |-> compute_digest(v)]]

\* update without `self.current_number += 1`
update_no_increment(cc, previous, new_byte) ==
    LET first_byte == cc.content[1]
        shifted == Append(Tail(cc.content), new_byte)
    IN  [cc    |-> [current_number |-> cc.current_number, content |-> shifted],
         chunk |-> [number |-> cc.current_number,
                    digest |-> rehash_digest(previous, first_byte, new_byte)]]

\* ChunkContent::update: the new ChunkContent and the Chunk it returns
update(cc, previous, new_byte) ==
    LET first_byte == cc.content[1]
        shifted == Append(Tail(cc.content), new_byte)
        number == cc.current_number + 1
    IN  [cc    |-> [current_number |-> number, content |-> shifted],
         chunk |-> [number |-> number,
                    digest |-> rehash_digest(previous, first_byte, new_byte)]]

(***************************************************************************)
(* chunker.rs: ChunkIterator::next.  File::read on a regular file returns  *)
(* the next min(buffer length, bytes left) bytes, or an error.             *)
(***************************************************************************)
ReadLen(f, p, n) == Min(n, Len(f) - p)

ChunkerInit ==
    /\ file \in SeqsUpTo(Bytes, MaxFileLen)
    /\ pos = 0
    /\ chunk_content = NewChunkContent
    /\ last_chunk = NoChunk
    /\ emitted = <<>>
    /\ collected = <<>>
    /\ ended = "no"
    /\ first_read = -1
    /\ HeapIdle
    /\ IndexIdle
    /\ QueryIdle
    /\ CollectionIdle
    /\ CosineIdle
    /\ EqIdle

\* next() returns Some(chunk)
Returns(chunk) ==
    /\ emitted' = Append(emitted, chunk)
    /\ collected' = IF ended = "no" THEN Append(collected, chunk) ELSE collected
    /\ ended' = ended

\* next() returns None
ReturnsNone(why) ==
    /\ emitted' = emitted
    /\ collected' = collected
    /\ ended' = IF ended = "no" THEN why ELSE ended

\* last_chunk is None, the read of up to CHUNK_SIZE bytes succeeds
NextFirst ==
    /\ ~last_chunk.some
    /\ LET n == ReadLen(file, pos, CHUNK_SIZE)
           initial_content ==
               [i \in 1..CHUNK_SIZE |-> IF i <= n THEN file[pos + i] ELSE 0]
           r == setup(chunk_content, initial_content)
       IN  /\ pos' = pos + n
           /\ chunk_content' = r.cc
           /\ last_chunk' = SomeChunk(r.chunk)
           /\ first_read' = IF first_read = -1 THEN n ELSE first_read
           /\ Returns(r.chunk)
    /\ UNCHANGED <<notChunkerVars, file>>

\* last_chunk is None, the read fails
NextFirstErr ==
    /\ ~last_chunk.some
    /\ ReturnsNone("error")
    /\ UNCHANGED <<notChunkerVars, file, pos, chunk_content, last_chunk, first_read>>

\* NextByte without the arm `Ok(0) => None`
NextByte_no_eof_arm ==
    /\ last_chunk.some
    /\ LET n == ReadLen(file, pos, 1)
           b == IF n = 0 THEN 1 ELSE file[pos + 1]
           previous_digest == last_chunk.digest
           r == update(chunk_content, previous_digest, b)
       IN  /\ pos' = pos + n
           /\ chunk_content' = r.cc
           /\ last_chunk' = SomeChunk(r.chunk)
           /\ Returns(r.chunk)
    /\ UNCHANGED <<notChunkerVars, file, first_read>>

\* last_chunk is Some, the read of one byte succeeds
NextByte ==
    /\ last_chunk.some
    /\ LET n == ReadLen(file, pos, 1)
           \* b = vec![1]: the buffer keeps its 1 when nothing is read
           b == IF n = 0 THEN 1 ELSE file[pos + 1]
       IN  IF n = 0
           THEN /\ ReturnsNone("eof")
                /\ UNCHANGED <<pos, chunk_content, last_chunk>>
           ELSE LET previous_digest == last_chunk.digest
                    r == update(chunk_content, previous_digest, b)
                IN  /\ pos' = pos + n
                    /\ chunk_content' = r.cc
                    /\ last_chunk' = SomeChunk(r.chunk)
                    /\ Returns(r.chunk)
    /\ UNCHANGED <<notChunkerVars, file, first_read>>

\* last_chunk is Some, the read fails
NextByteErr ==
    /\ last_chunk.some
    /\ ReturnsNone("error")
    /\ UNCHANGED <<notChunkerVars, file, pos, chunk_content, last_chunk, first_read>>

ChunkerNext ==
    \/ NextFirst
    \/ NextFirstErr
    \/ NextByte
    \/ NextByteErr

SpecChunker == ChunkerInit /\ [][ChunkerNext]_vars

(***************************************************************************)
(* heap.rs: Heap.  d is Heap::data without element 0, so Heap::len() is    *)
(* Len(d) and data.len() is Len(d) + 1.                                    *)
(***************************************************************************)
\* Heap::at_idx
at_idx(d, idx) == d[idx].score

\* Vec::swap
swap(d, i, j) == [d EXCEPT ![i] = d[j], ![j] = d[i]]

\* Vec::pop (on a non-empty vector)
pop(d) == SubSeq(d, 1, Len(d) - 1)

\* Heap::get_max: the score of element 1; only called here on a non-empty heap
get_max(d) == d[1].score

\* the loop of heapify, l the index of the element being moved up
RECURSIVE heapify_loop(_, _)
heapify_loop(d, l) ==
    LET p == l \div 2
    IN  IF p > 0 /\ f64_lt(at_idx(d, p), at_idx(d, l))
        THEN heapify_loop(swap(d, l, p), p)
        ELSE d

\* Heap::heapify
heapify(d) == heapify_loop(d, Len(d))

\* the rebalancing loop of extract_max
RECURSIVE rebalance(_, _)
rebalance(d, idx) ==
    LET child == idx * 2
        len == Len(d)
    IN  IF \/ (child < len /\ f64_lt(at_idx(d, idx), at_idx(d, child)))
           \/ (child + 1 < len /\ f64_lt(at_idx(d, idx), at_idx(d, child + 1)))
        THEN LET c == IF (child + 1 < len)
                         /\ f64_gt(at_idx(d, child + 1), at_idx(d, child))
                      THEN child + 1
                      ELSE child
             IN  rebalance(swap(d, idx, c), c)
        ELSE d

\* Heap::extract_max on a non-empty heap: the data it leaves
extract_max(d) ==
    IF Len(d) + 1 <= 2
    THEN pop(d)
    ELSE LET x == d[Len(d)]
             moved == [pop(d) EXCEPT ![1] = x]
         IN  rebalance(moved, 1)

\* Heap::insert: the data it leaves
insert(d, capacity, f, item) ==
    LET e == [score |-> f, item |-> item]
    IN  IF Len(d) = 0 THEN Append(d, e)
        ELSE IF Len(d) < capacity THEN heapify(Append(d, e))
        ELSE IF f64_gt(get_max(d), f) THEN heapify(Append(extract_max(d), e))
        ELSE d

\* a stable sort by score (Vec::sort_by with partial_cmp), no score NaN
RECURSIVE sort_by_score(_)
sort_by_score(s) ==
    IF Len(s) <= 1 THEN s
    ELSE LET rest == sort_by_score(Tail(s))
             less == {i \in 1..Len(rest) : f64_lt(rest[i].score, s[1].score)}
             n == Cardinality(less)
         IN  SubSeq(rest, 1, n) \o <<s[1]>> \o SubSeq(rest, n + 1, Len(rest))

\* Heap::get_elements
get_elements(d) == sort_by_score(d)

\* Heap::get_elements panics: partial_cmp(..).unwrap() on a NaN, which the sort
\* reaches as soon as it compares, that is with two elements or more
get_elements_panics(d) ==
    Len(d) >= 2 /\ \E i \in DOMAIN d : d[i].score = NaN

Scores == 1..MaxScore

HeapInit ==
    /\ heap_capacity \in 0..MaxCapacity
    /\ heap_data = <<>>
    /\ inserted = <<>>
    /\ ChunkerIdle
    /\ IndexIdle
    /\ QueryIdle
    /\ CollectionIdle
    /\ CosineIdle
    /\ EqIdle

\* one call of Heap::insert; the item is the number of the document inserted
Insert(f) ==
    /\ Len(inserted) < MaxInserts
    /\ LET item == Len(inserted) + 1
       IN  /\ heap_data' = insert(heap_data, heap_capacity, f, item)
           /\ inserted' = Append(inserted, [score |-> f, item |-> item])
    /\ UNCHANGED <<notHeapVars, heap_capacity>>

HeapNext == \E f \in Scores : Insert(f)

SpecHeap == HeapInit /\ [][HeapNext]_vars

(***************************************************************************)
(* The file system the index and query pipelines run on: three files as in *)
(* the repository's testdata (alternating 'y' and newline, zero bytes, the *)
(* empty file), two of them in a directory of their own, and the input     *)
(* paths that cover them.                                                  *)
(***************************************************************************)
Files == {"t/empty", "t/sub/yes", "t/sub/zero"}

\* the files of the repository's testdata directory, at their real size
TestFiles ==
    {"testdata/testfile-yes.bin", "testdata/testfile-zero-length",
     "testdata/testfile-zero.bin"}

\* the size of testfile-yes.bin and of testfile-zero.bin
TestFileLen == 512

\* a file that is queried and never indexed: the window of zero bytes, which
\* the zero files have as well, and two windows of its own
UnindexedFiles == {"u/mixed"}

AllFiles == Files \cup TestFiles \cup UnindexedFiles

FileContent ==
    [f \in AllFiles |->
        CASE f = "t/sub/yes" -> <<121, 10, 121, 10, 121, 10, 121, 10, 121>>
          [] f = "t/sub/zero" -> <<0, 0, 0, 0, 0, 0, 0, 0, 0>>
          [] f = "t/empty" -> <<>>
          [] f = "testdata/testfile-yes.bin" ->
                [i \in 1..TestFileLen |-> IF i % 2 = 1 THEN 121 ELSE 10]
          [] f = "testdata/testfile-zero.bin" -> [i \in 1..TestFileLen |-> 0]
          [] f = "testdata/testfile-zero-length" -> <<>>
          [] f = "u/mixed" -> <<0, 0, 0, 0, 0, 0, 0, 121, 10>>]

\* the position of a path in String's order
FileRank ==
    [f \in AllFiles |->
        CASE f = "t/empty" -> 1
          [] f = "t/sub/yes" -> 2
          [] f = "t/sub/zero" -> 3
          [] f = "testdata/testfile-yes.bin" -> 4
          [] f = "testdata/testfile-zero-length" -> 5
          [] f = "testdata/testfile-zero.bin" -> 6
          [] f = "u/mixed" -> 7]

\* the paths index_paths may be given: a directory, a directory inside it and
\* a single file
InputPaths == {"t", "t/sub", "t/empty"}

\* get_files_from_dir: the regular files WalkDir finds under start_path
get_files_from_dir(start_path) ==
    CASE start_path = "t" -> <<"t/empty", "t/sub/yes", "t/sub/zero">>
      [] start_path = "t/sub" -> <<"t/sub/yes", "t/sub/zero">>
      [] start_path = "t/empty" -> <<"t/empty">>

(***************************************************************************)
(* similarities.rs: file_to_chunks, compute_document and                   *)
(* DocumentCollection.  A map is a function on its set of keys; log10 is   *)
(* taken from a table of thousandths.                                      *)
(***************************************************************************)
\* one call of ChunkIterator::next after the first, the one-byte read
\* returning a byte: the iterator's position and state and the digests
\* collected so far
collect_next(f, st) ==
    LET r == update(st.cc, st.previous_digest, f[st.p + 1])
    IN  [p |-> st.p + ReadLen(f, st.p, 1),
         cc |-> r.cc,
         previous_digest |-> r.chunk.digest,
         acc |-> Append(st.acc, r.chunk.digest)]

\* up to n calls of ChunkIterator::next in a row, half by half: the second
\* half only when the first did not come to the end of the file
RECURSIVE collect_rest(_, _, _)
collect_rest(f, st, n) ==
    IF n = 0 THEN st
    ELSE IF n = 1 THEN collect_next(f, st)
    ELSE LET half == collect_rest(f, st, n \div 2)
         IN  IF half.p < Len(f) THEN collect_rest(f, half, n - (n \div 2))
             ELSE half

\* file_to_chunks: the digests of the chunks ChunkIterator yields, every read
\* succeeding: after the first read, one call of next per byte that is left,
\* then the read that returns Ok(0)
file_to_chunks(f) ==
    LET n == ReadLen(f, 0, CHUNK_SIZE)
        initial_content == [i \in 1..CHUNK_SIZE |-> IF i <= n THEN f[i] ELSE 0]
        r == setup(NewChunkContent, initial_content)
    IN  collect_rest(f, [p |-> n, cc |-> r.cc, previous_digest |-> r.chunk.digest,
                         acc |-> <<r.chunk.digest>>],
                     Len(f) - n).acc

\* the chunk sequence of every file of the model, computed once
RECURSIVE chunks_of_files(_)
chunks_of_files(S) ==
    IF S = {} THEN <<>>
    ELSE LET f == CHOOSE g \in S : TRUE
         IN  (f :> file_to_chunks(FileContent[f])) @@ chunks_of_files(S \ {f})

FileChunks == chunks_of_files(AllFiles)

\* every chunk of a sequence counted once
count_chunks_distinct(chunks) ==
    [c \in {chunks[i] : i \in DOMAIN chunks} |-> 1]

\* the number of occurrences of every chunk of a sequence
count_chunks(chunks) ==
    [c \in {chunks[i] : i \in DOMAIN chunks} |->
        Cardinality({i \in DOMAIN chunks : chunks[i] = c})]

\* compute_document_frequencies
compute_document_frequencies(doc) == count_chunks(doc)

\* compute_document on a file that opens: (Document, file_frequencies)
compute_document(file_name) ==
    LET chunks == FileChunks[file_name]
    IN  [document |-> [file |-> file_name, chunks |-> chunks, digest |-> <<>>],
         file_frequencies |-> count_chunks(chunks)]

\* a copy that leaves the digests out
copy_files_only(dc) == [files |-> dc.files, collection_digests |-> EmptyMap]

\* DocumentCollection::copy
copy(dc) == [files |-> dc.files, collection_digests |-> dc.collection_digests]

\* or_insert(v) without and_modify for every (k, v) of frequencies
add_frequencies_or_insert(digests, frequencies) ==
    [k \in (DOMAIN digests) \cup (DOMAIN frequencies) |->
        IF k \in DOMAIN digests THEN digests[k] ELSE frequencies[k]]

\* entry(k).and_modify(|e| *e += v).or_insert(v) for every (k, v) of frequencies
add_frequencies(digests, frequencies) ==
    [k \in (DOMAIN digests) \cup (DOMAIN frequencies) |->
        (IF k \in DOMAIN digests THEN digests[k] ELSE 0)
        + (IF k \in DOMAIN frequencies THEN frequencies[k] ELSE 0)]

\* update_collection with insert(k, v) in place of and_modify/or_insert
update_collection_overwrite(dc, frequencies, names) ==
    [files |-> dc.files \cup {names[i] : i \in DOMAIN names},
     collection_digests |->
        [k \in (DOMAIN dc.collection_digests) \cup (DOMAIN frequencies) |->
            IF k \in DOMAIN frequencies THEN frequencies[k]
            ELSE dc.collection_digests[k]]]

\* update_collection without `self.files.extend`
update_collection_no_files(dc, frequencies, names) ==
    [files |-> dc.files,
     collection_digests |-> add_frequencies(dc.collection_digests, frequencies)]

\* DocumentCollection::update_collection: the collection it leaves
update_collection(dc, frequencies, names) ==
    [files |-> dc.files \cup {names[i] : i \in DOMAIN names},
     collection_digests |-> add_frequencies(dc.collection_digests, frequencies)]

\* DocumentCollection::exists_file
exists_file(dc, name) == name \in dc.files

\* add_file without the exists_file test
add_file_unchecked(dc, name, opens) ==
    IF opens
    THEN LET r == compute_document(name)
         IN  [dc |-> [files |-> dc.files \cup {name},
                      collection_digests |->
                          add_frequencies(dc.collection_digests, r.file_frequencies)],
              result |-> "some",
              document |-> r.document]
    ELSE [dc |-> dc, result |-> "err", document |-> NoDocument]

\* DocumentCollection::add_file: the collection it leaves and what it
\* returns, Ok(Some(document)), Ok(None) or Err; opens tells whether
\* File::open succeeds
add_file(dc, name, opens) ==
    IF ~exists_file(dc, name)
    THEN IF opens
         THEN LET r == compute_document(name)
              IN  [dc |-> [files |-> dc.files \cup {name},
                           collection_digests |->
                               add_frequencies(dc.collection_digests,
                                               r.file_frequencies)],
                   result |-> "some",
                   document |-> r.document]
         ELSE [dc |-> dc, result |-> "err", document |-> NoDocument]
    ELSE [dc |-> dc, result |-> "none", document |-> NoDocument]

\* index_directory of the sequential indexer over files that open: add_file
\* for every file in turn, the documents pushed to results; Ok(None) makes
\* document.unwrap() panic
RECURSIVE index_directory_sequential(_, _, _)
index_directory_sequential(dc, files, pushed) ==
    IF files = <<>> THEN [dc |-> dc, results |-> pushed, panicked |-> FALSE]
    ELSE LET added_file == add_file(dc, Head(files), TRUE)
         IN  IF added_file.result = "none"
             THEN [dc |-> added_file.dc, results |-> pushed, panicked |-> TRUE]
             ELSE index_directory_sequential(
                      added_file.dc, Tail(files),
                      Append(pushed, added_file.document))

\* the receiver loop of index_directory: update_collection for every message,
\* a message being the frequencies and the name of one hashed file
RECURSIVE merge_messages(_, _)
merge_messages(dc, names) ==
    IF names = <<>> THEN dc
    ELSE merge_messages(
             update_collection(dc, compute_document(Head(names)).file_frequencies,
                               <<Head(names)>>),
             Tail(names))

\* the keys of a BTreeMap<u64, _> in ascending order
RECURSIVE sorted_chunks(_)
sorted_chunks(S) ==
    IF S = {} THEN <<>>
    ELSE LET m == CHOOSE x \in S : \A y \in S : ~u64_lt(y, x)
         IN  <<m>> \o sorted_chunks(S \ {m})

\* the elements of a BTreeSet<String> in ascending order
RECURSIVE sorted_files(_)
sorted_files(S) ==
    IF S = {} THEN <<>>
    ELSE LET m == CHOOSE x \in S : \A y \in S : FileRank[x] <= FileRank[y]
         IN  <<m>> \o sorted_files(S \ {m})

\* the entries of a BTreeMap<u64, usize> in the order of iter()
entries(m) ==
    LET ks == sorted_chunks(DOMAIN m)
    IN  [i \in 1..Len(ks) |-> <<ks[i], m[ks[i]]>>]

\* a.iter().zip(b.iter()).fold(true, |sum, (x, y)| sum && (x == y)): zip
\* stops at the end of the shorter of the two
zip_fold_eq(a, b) == \A i \in 1..Min(Len(a), Len(b)) : a[i] = b[i]

\* impl PartialEq for DocumentCollection: eq
eq(self, other) ==
    LET ret == zip_fold_eq(sorted_files(self.files), sorted_files(other.files))
    IN  IF ret
        THEN zip_fold_eq(entries(self.collection_digests),
                         entries(other.collection_digests))
        ELSE ret

\* round(1000 * log10(n)) for n = 1..32
Log10Table ==
    <<0, 301, 477, 602, 699, 778, 845, 903, 954, 1000, 1041, 1079, 1114, 1146,
      1176, 1204, 1230, 1255, 1279, 1301, 1322, 1342, 1362, 1380, 1398, 1415,
      1431, 1447, 1462, 1477, 1491, 1505>>

RECURSIVE gcd(_, _)
gcd(a, b) == IF b = 0 THEN a ELSE gcd(b, a % b)

\* (n / count).log10() in thousandths; equal quotients give equal values
log10_quotient(n, count) ==
    LET g == gcd(n, count)
    IN  Log10Table[n \div g] - Log10Table[count \div g]

\* (1.0 + frequency).log10() in thousandths
log10_one_plus(frequency) == Log10Table[1 + frequency]

NoWeight == [some |-> FALSE, value |-> 0]

\* compute_chunk_weight that gives None for a weight of 0
compute_chunk_weight_drops_zero(dc, chunk, frequency) ==
    IF frequency = 0 THEN NoWeight
    ELSE IF chunk \notin DOMAIN dc.collection_digests THEN NoWeight
    ELSE LET value == dc.collection_digests[chunk]
             n == Cardinality(DOMAIN dc.collection_digests)
             weight == (log10_quotient(n, value) * log10_one_plus(frequency) + 50)
                          \div 100
         IN  IF value > 0 /\ weight # 0
             THEN [some |-> TRUE, value |-> weight]
             ELSE NoWeight

\* DocumentCollection::compute_chunk_weight: Option<f64>
compute_chunk_weight(dc, chunk, frequency) ==
    IF frequency = 0 THEN NoWeight
    ELSE IF chunk \notin DOMAIN dc.collection_digests THEN NoWeight
    ELSE LET value == dc.collection_digests[chunk]
         IN  IF value > 0 /\ frequency > 0
             THEN LET n == Cardinality(DOMAIN dc.collection_digests)
                      doc_weight == log10_quotient(n, value)
                      chunk_weight == log10_one_plus(frequency)
                  IN  [some |-> TRUE,
                       value |-> (doc_weight * chunk_weight + 50) \div 100]
             ELSE NoWeight

\* compute_document_digest that keeps the chunks the model does not know,
\* with weight 0
compute_document_digest_unfiltered(dc, doc) ==
    LET hashed_doc == compute_document_frequencies(doc)
        keys == sorted_chunks(DOMAIN hashed_doc)
    IN  [i \in 1..Len(keys) |->
            LET w == compute_chunk_weight(dc, keys[i], hashed_doc[keys[i]])
            IN  <<keys[i], IF w.some THEN w.value ELSE 0>>]

\* DocumentCollection::compute_document_digest: (chunk, weight) pairs in
\* ascending chunk order, the chunks without a weight left out
compute_document_digest(dc, doc) ==
    LET hashed_doc == compute_document_frequencies(doc)
        keys == sorted_chunks(DOMAIN hashed_doc)
        weighted == [i \in 1..Len(keys) |->
                        <<keys[i], compute_chunk_weight(dc, keys[i], hashed_doc[keys[i]])>>]
        kept == SelectSeq(weighted, LAMBDA e : e[2].some)
    IN  [i \in 1..Len(kept) |-> <<kept[i][1], kept[i][2].value>>]

\* the weight a sparse vector gives a key (the last entry with that key)
vector_entry(vec, k) ==
    LET at == {i \in DOMAIN vec : vec[i][1] = k}
    IN  IF at = {} THEN NoWeight
        ELSE [some |-> TRUE,
              value |-> vec[CHOOSE i \in at : \A j \in at : j <= i][2]]

\* the fold of cosine_similarity over coll.values(), from key i on
RECURSIVE fold_norms(_, _, _, _, _)
fold_norms(keys, i, vec1, vec2, acc) ==
    IF i > Len(keys) THEN acc
    ELSE LET n1 == vector_entry(vec1, keys[i])
             n2 == vector_entry(vec2, keys[i])
             next ==
                IF n1.some /\ n2.some
                THEN [norm_a |-> acc.norm_a + f64_mul(n1.value, n1.value),
                      norm_b |-> acc.norm_b + f64_mul(n2.value, n2.value),
                      norm_prod |-> acc.norm_prod + f64_mul(n1.value, n2.value)]
                ELSE IF n1.some
                THEN [acc EXCEPT !.norm_a = acc.norm_a + f64_mul(n1.value, n1.value)]
                ELSE [acc EXCEPT !.norm_b = acc.norm_b + f64_mul(n2.value, n2.value)]
         IN  fold_norms(keys, i + 1, vec1, vec2, next)

\* the fold over the keys that both vectors have only
cosine_norms_common_keys(vec1, vec2) ==
    LET coll_keys == sorted_chunks({vec1[i][1] : i \in DOMAIN vec1}
                                   \cap {vec2[i][1] : i \in DOMAIN vec2})
    IN  fold_norms(coll_keys, 1, vec1, vec2,
                   [norm_a |-> 0, norm_b |-> 0, norm_prod |-> 0])

\* cosine_similarity: (norm_a, norm_b, norm_prod) after the fold over coll
cosine_norms(vec1, vec2) ==
    LET coll_keys == sorted_chunks({vec1[i][1] : i \in DOMAIN vec1}
                                   \cup {vec2[i][1] : i \in DOMAIN vec2})
    IN  fold_norms(coll_keys, 1, vec1, vec2,
                   [norm_a |-> 0, norm_b |-> 0, norm_prod |-> 0])

\* cosine_similarity
cosine_similarity(vec1, vec2) ==
    IF Len(vec1) = 0 \/ Len(vec2) = 0
    THEN 0
    ELSE LET n == cosine_norms(vec1, vec2)
         IN  f64_div(n.norm_prod, f64_mul(f64_sqrt(n.norm_a), f64_sqrt(n.norm_b)))

\* cosine_distance
cosine_distance(vec1, vec2) == f64_one_minus(cosine_similarity(vec1, vec2))

\* ranked_search: the queue after the first i documents were inserted; the
\* item of an element is the index of its document
RECURSIVE ranked_queue(_, _, _, _)
ranked_queue(doc, documents, k, i) ==
    IF i = 0 THEN <<>>
    ELSE insert(ranked_queue(doc, documents, k, i - 1), k,
                cosine_distance(documents[i].digest, doc), i)

\* ranked_search panics (in get_elements)
ranked_search_panics(doc, documents, k) ==
    get_elements_panics(ranked_queue(doc, documents, k, Len(documents)))

\* ranked_search: the (score, document) pairs it returns
ranked_search(doc, documents, k) ==
    LET elements == get_elements(ranked_queue(doc, documents, k, Len(documents)))
    IN  [i \in 1..Len(elements) |-> <<elements[i].score, documents[elements[i].item]>>]

\* serde: the state file's logical content, sets and maps in ascending order
serialize_collection(dc) ==
    LET keys == sorted_chunks(DOMAIN dc.collection_digests)
    IN  [written |-> TRUE,
         files |-> sorted_files(dc.files),
         collection_digests |->
            [i \in 1..Len(keys) |-> <<keys[i], dc.collection_digests[keys[i]]>>]]

\* serde: the DocumentCollection read back from a state file
deserialize_collection(st) ==
    [files |-> {st.files[i] : i \in DOMAIN st.files},
     collection_digests |->
        [k \in {st.collection_digests[i][1] : i \in DOMAIN st.collection_digests} |->
            LET i == CHOOSE j \in DOMAIN st.collection_digests :
                         st.collection_digests[j][1] = k
            IN  st.collection_digests[i][2]]]

(***************************************************************************)
(* query.rs: verify_consistency                                            *)
(***************************************************************************)
\* verify_consistency that only checks the documents against the collection
verify_consistency_one_way(dc, documents) ==
    \A i \in DOMAIN documents : exists_file(dc, documents[i].file)

verify_consistency(dc, documents) ==
    LET document_name_set == {documents[i].file : i \in DOMAIN documents}
        all_collection_in_documents == \A f \in dc.files : f \in document_name_set
        all_documents_in_collection ==
            \A i \in DOMAIN documents : exists_file(dc, documents[i].file)
    IN  all_collection_in_documents /\ all_documents_in_collection

(***************************************************************************)
(* What a list of input paths determines, whatever the schedule: the files *)
(* visited and the corpus model over them.                                 *)
(***************************************************************************)
\* the files the paths ps cover that open (all but those in unr), one entry
\* per visit, in path order
RECURSIVE VisitsWith(_, _)
VisitsWith(ps, unr) ==
    IF ps = <<>> THEN <<>>
    ELSE SelectSeq(get_files_from_dir(Head(ps)), LAMBDA f : f \notin unr)
         \o VisitsWith(Tail(ps), unr)

\* the chunk sequences of a sequence of files, one after the other
RECURSIVE AllChunks(_)
AllChunks(fs) ==
    IF fs = <<>> THEN <<>> ELSE FileChunks[Head(fs)] \o AllChunks(Tail(fs))

\* the corpus model over the visits: the files visited and, per chunk, the
\* number of its occurrences over all visits
ModelOfWith(ps, unr) ==
    [files |-> {VisitsWith(ps, unr)[i] : i \in DOMAIN VisitsWith(ps, unr)},
     collection_digests |-> count_chunks(AllChunks(VisitsWith(ps, unr)))]

\* the database over the visits: one record per visit, its digest on the
\* corpus model over all visits
DatabaseOfWith(ps, unr) ==
    [i \in DOMAIN VisitsWith(ps, unr) |->
        [file |-> VisitsWith(ps, unr)[i],
         chunks |-> <<>>,
         digest |-> compute_document_digest(ModelOfWith(ps, unr),
                                            FileChunks[VisitsWith(ps, unr)[i]])]]

(***************************************************************************)
(* index.rs: index_paths and index_directory.  The rayon workers of        *)
(* index_directory take the files in any order; each sends its message     *)
(* before the closure returns.  The receiver loop runs after par_iter has  *)
(* returned.                                                               *)
(***************************************************************************)
Todo == [st |-> "todo", doc |-> NoDocument]

IndexInit ==
    /\ paths \in SeqsUpTo(InputPaths, MaxPaths)
    /\ unreadable \in SUBSET Files
    /\ pc = "paths"
    /\ cur = 1
    /\ dir_files = <<>>
    /\ slots = <<>>
    /\ channel = <<>>
    /\ senders = FALSE
    /\ dir_results = <<>>
    /\ document_collection = new_collection
    /\ results = <<>>
    /\ merged = <<>>
    /\ state_file = NotWritten
    /\ reference_collection = new_collection
    /\ updated_results = <<>>
    /\ database = NoDatabase
    /\ ChunkerIdle
    /\ HeapIdle
    /\ QueryIdle
    /\ CollectionIdle
    /\ CosineIdle
    /\ EqIdle

\* index_paths: the loop calls index_directory(path), which lists the files
\* and creates the channel
EnterDirectory ==
    /\ pc = "paths"
    /\ cur <= Len(paths)
    /\ dir_files' = get_files_from_dir(paths[cur])
    /\ slots' = [i \in 1..Len(get_files_from_dir(paths[cur])) |-> Todo]
    /\ channel' = <<>>
    /\ senders' = TRUE
    /\ dir_results' = <<>>
    /\ pc' = "hash"
    /\ UNCHANGED <<notIndexVars, paths, unreadable, cur, document_collection, results,
                   merged, state_file, reference_collection, updated_results,
                   database>>

\* a worker that merges its file into the collection itself
HashFile_merging(i) ==
    /\ pc = "hash"
    /\ i \in DOMAIN slots
    /\ slots[i].st = "todo"
    /\ IF dir_files[i] \in unreadable
       THEN /\ slots' = [slots EXCEPT ![i] = [st |-> "none", doc |-> NoDocument]]
            /\ UNCHANGED <<channel, document_collection>>
       ELSE LET r == compute_document(dir_files[i])
            IN  /\ channel' = Append(channel, [hash |-> r.file_frequencies,
                                               name |-> r.document.file])
                /\ slots' = [slots EXCEPT ![i] = [st |-> "some", doc |-> r.document]]
                /\ document_collection' =
                       update_collection(document_collection, r.file_frequencies,
                                         <<r.document.file>>)
    /\ UNCHANGED <<notIndexVars, paths, unreadable, senders, pc, cur, dir_files, dir_results,
                   results, merged, state_file, reference_collection,
                   updated_results, database>>

\* a worker that sends a message with no counts for a file that does not open
HashFile_sends_unreadable(i) ==
    /\ pc = "hash"
    /\ i \in DOMAIN slots
    /\ slots[i].st = "todo"
    /\ IF dir_files[i] \in unreadable
       THEN /\ slots' = [slots EXCEPT ![i] = [st |-> "none", doc |-> NoDocument]]
            /\ channel' = Append(channel, [hash |-> EmptyMap, name |-> dir_files[i]])
       ELSE LET r == compute_document(dir_files[i])
            IN  /\ channel' = Append(channel, [hash |-> r.file_frequencies,
                                               name |-> r.document.file])
                /\ slots' = [slots EXCEPT ![i] = [st |-> "some", doc |-> r.document]]
    /\ UNCHANGED <<notIndexVars, paths, unreadable, senders, pc, cur, dir_files, dir_results,
                   document_collection, results, merged, state_file,
                   reference_collection, updated_results, database>>

\* the closure of map_with on file i: compute_document, send, Some(document);
\* None when the file does not open
HashFile(i) ==
    /\ pc = "hash"
    /\ i \in DOMAIN slots
    /\ slots[i].st = "todo"
    /\ IF dir_files[i] \in unreadable
       THEN /\ slots' = [slots EXCEPT ![i] = [st |-> "none", doc |-> NoDocument]]
            /\ UNCHANGED channel
       ELSE LET r == compute_document(dir_files[i])
            IN  /\ channel' = Append(channel, [hash |-> r.file_frequencies,
                                               name |-> r.document.file])
                /\ slots' = [slots EXCEPT ![i] = [st |-> "some", doc |-> r.document]]
    /\ UNCHANGED <<notIndexVars, paths, unreadable, senders, pc, cur, dir_files, dir_results,
                   document_collection, results, merged, state_file,
                   reference_collection, updated_results, database>>

\* fold and reduce: the documents of the slots that hold one, in file order
RECURSIVE some_documents(_)
some_documents(sl) ==
    IF sl = <<>> THEN <<>>
    ELSE (IF Head(sl).st = "some" THEN <<Head(sl).doc>> ELSE <<>>)
         \o some_documents(Tail(sl))

\* par_iter returns while a Sender stays alive
ReduceResults_keeps_sender ==
    /\ pc = "hash"
    /\ \A i \in DOMAIN slots : slots[i].st # "todo"
    /\ dir_results' = some_documents(slots)
    /\ pc' = "merge"
    /\ UNCHANGED <<notIndexVars, paths, unreadable, senders, cur, dir_files, slots,
                   channel, document_collection, results, merged, state_file,
                   reference_collection, updated_results, database>>

\* par_iter has returned: every closure is done and the sender that map_with
\* took, with every clone of it, is dropped
ReduceResults ==
    /\ pc = "hash"
    /\ \A i \in DOMAIN slots : slots[i].st # "todo"
    /\ dir_results' = some_documents(slots)
    /\ senders' = FALSE
    /\ pc' = "merge"
    /\ UNCHANGED <<notIndexVars, paths, unreadable, cur, dir_files, slots, channel,
                   document_collection, results, merged, state_file,
                   reference_collection, updated_results, database>>

\* a receiver loop that merges the message it takes twice
Merge_twice ==
    /\ pc = "merge"
    /\ channel # <<>>
    /\ document_collection' =
           update_collection(
               update_collection(document_collection, Head(channel).hash,
                                 <<Head(channel).name>>),
               Head(channel).hash, <<Head(channel).name>>)
    /\ merged' = Append(merged, Head(channel).name)
    /\ channel' = Tail(channel)
    /\ UNCHANGED <<notIndexVars, paths, unreadable, senders, pc, cur, dir_files, slots,
                   dir_results, results, state_file, reference_collection,
                   updated_results, database>>

\* the receiver loop takes one message: dc.update_collection(&hash, &[name])
Merge ==
    /\ pc = "merge"
    /\ channel # <<>>
    /\ document_collection' =
           update_collection(document_collection, Head(channel).hash,
                             <<Head(channel).name>>)
    /\ merged' = Append(merged, Head(channel).name)
    /\ channel' = Tail(channel)
    /\ UNCHANGED <<notIndexVars, paths, unreadable, senders, pc, cur, dir_files, slots, dir_results,
                   results, state_file, reference_collection, updated_results,
                   database>>

\* the channel is empty and no Sender is alive, so receiver.iter() ends:
\* index_directory returns its results and index_paths appends them
LeaveDirectory ==
    /\ pc = "merge"
    /\ channel = <<>>
    /\ ~senders
    /\ results' = results \o dir_results
    /\ cur' = cur + 1
    /\ pc' = "paths"
    /\ UNCHANGED <<notIndexVars, paths, unreadable, senders, dir_files, slots, channel, dir_results,
                   document_collection, merged, state_file, reference_collection,
                   updated_results, database>>

\* index_paths after the loop: the state file is created and written
WriteState ==
    /\ pc = "paths"
    /\ cur > Len(paths)
    /\ state_file' = serialize_collection(document_collection)
    /\ pc' = "snapshot"
    /\ UNCHANGED <<notIndexVars, paths, unreadable, senders, cur, dir_files, slots, channel, dir_results,
                   document_collection, results, merged, reference_collection,
                   updated_results, database>>

\* File::create(output_state_file)? fails: index_paths returns the error
WriteStateFails ==
    /\ pc = "paths"
    /\ cur > Len(paths)
    /\ pc' = "failed"
    /\ UNCHANGED <<notIndexVars, paths, unreadable, senders, cur, dir_files, slots, channel, dir_results,
                   document_collection, results, merged, state_file,
                   reference_collection, updated_results, database>>

\* reference_collection = document_collection.borrow().copy()
Snapshot ==
    /\ pc = "snapshot"
    /\ reference_collection' = copy(document_collection)
    /\ updated_results' = [i \in 1..Len(results) |-> Todo]
    /\ pc' = "finalize"
    /\ UNCHANGED <<notIndexVars, paths, unreadable, senders, cur, dir_files, slots, channel, dir_results,
                   document_collection, results, merged, state_file, database>>

\* the closure of into_par_iter().map on document i
FinalizeDocument(i) ==
    /\ pc = "finalize"
    /\ i \in DOMAIN updated_results
    /\ updated_results[i].st = "todo"
    /\ LET doc == results[i]
           the_collection == reference_collection
       IN  updated_results' =
               [updated_results EXCEPT ![i] =
                   [st |-> "some",
                    doc |-> [file |-> doc.file,
                             chunks |-> <<>>,
                             digest |-> compute_document_digest(the_collection,
                                                                doc.chunks)]]]
    /\ UNCHANGED <<notIndexVars, paths, unreadable, senders, pc, cur, dir_files, slots, channel,
                   dir_results, document_collection, results, merged, state_file,
                   reference_collection, database>>

\* collect has returned: write_database_state writes every document
WriteDatabase ==
    /\ pc = "finalize"
    /\ \A i \in DOMAIN updated_results : updated_results[i].st # "todo"
    /\ database' = [written |-> TRUE, documents |-> some_documents(updated_results)]
    /\ pc' = "done"
    /\ UNCHANGED <<notIndexVars, paths, unreadable, senders, cur, dir_files, slots, channel, dir_results,
                   document_collection, results, merged, state_file,
                   reference_collection, updated_results>>

\* File::create(results_file)? fails: index_paths returns the error
WriteDatabaseFails ==
    /\ pc = "finalize"
    /\ \A i \in DOMAIN updated_results : updated_results[i].st # "todo"
    /\ pc' = "failed"
    /\ UNCHANGED <<notIndexVars, paths, unreadable, senders, cur, dir_files, slots, channel, dir_results,
                   document_collection, results, merged, state_file,
                   reference_collection, updated_results, database>>

IndexNext ==
    \/ EnterDirectory
    \/ \E i \in 1..Cardinality(Files) : HashFile(i)
    \/ ReduceResults
    \/ Merge
    \/ LeaveDirectory
    \/ WriteState
    \/ WriteStateFails
    \/ Snapshot
    \/ \E i \in 1..(MaxPaths * Cardinality(Files)) : FinalizeDocument(i)
    \/ WriteDatabase
    \/ WriteDatabaseFails

SpecIndex == IndexInit /\ [][IndexNext]_vars

\* index_paths with its threads scheduled: a rayon worker that has a file to
\* hash hashes it, and the thread of index_directory goes on when it can
IndexFairness ==
    /\ \A i \in 1..Cardinality(Files) : WF_vars(HashFile(i))
    /\ WF_vars(ReduceResults)
    /\ WF_vars(Merge)
    /\ WF_vars(LeaveDirectory)

\* the runs the fair specification follows: those over MaxFairPaths paths at
\* most
IndexFairInit == IndexInit /\ Len(paths) <= MaxFairPaths

SpecIndexFair == IndexFairInit /\ [][IndexNext]_vars /\ IndexFairness

(***************************************************************************)
(* query.rs: open_state_and_database and query_for_results.  The state     *)
(* file and the database are what index runs over some input paths wrote,  *)
(* not necessarily the same run.                                           *)
(***************************************************************************)
StatePath == "state.json"

DatabasePath == "database.json"

\* a query file that does not open
MissingFile == "t/missing"

\* the paths of the index run that wrote the database, when it is not the run
\* that wrote the state file: no path, or the one directory t/sub (fewer
\* files than t, more than no path, other files than t/empty)
OtherRunPaths == {<<>>, <<"t/sub">>}

QueryInit ==
    /\ q_pc = "open"
    /\ \E ps \in SeqsUpTo(InputPaths, MaxCorpusPaths) :
          /\ q_state = serialize_collection(ModelOfWith(ps, {}))
          /\ \E qs \in {ps} \cup OtherRunPaths :
                q_database = DatabaseOfWith(qs, {})
    /\ q_files \in SeqsUpTo(Files \cup UnindexedFiles \cup {MissingFile},
                            MaxQueries)
    /\ q_k \in 0..MaxResults
    /\ q_loaded = FALSE
    /\ q_collection = new_collection
    /\ q_documents = <<>>
    /\ q_error = NoError
    /\ q_index = 1
    /\ q_output = <<>>
    /\ q_searches = <<>>
    /\ ChunkerIdle
    /\ HeapIdle
    /\ IndexIdle
    /\ CollectionIdle
    /\ CosineIdle
    /\ EqIdle

\* open_state_and_database: both files open and are read, then
\* verify_consistency decides
OpenStateAndDatabase ==
    /\ q_pc = "open"
    /\ LET document_collection_read == deserialize_collection(q_state)
           documents_read == q_database
       IN  /\ q_loaded' = TRUE
           /\ q_collection' = document_collection_read
           /\ q_documents' = documents_read
           /\ IF ~verify_consistency(document_collection_read, documents_read)
              THEN /\ q_error' =
                         [kind |-> "InvalidInput",
                          message |-> <<StatePath, " and ", DatabasePath,
                                        " are not consistent">>]
                   /\ q_pc' = "error"
              ELSE /\ q_error' = q_error
                   /\ q_pc' = "loop"
    /\ UNCHANGED <<notQueryVars, q_state, q_database, q_files, q_k, q_index,
                   q_output, q_searches>>

\* open_state_and_database: File::open of one of the two files fails
OpenFails ==
    /\ q_pc = "open"
    /\ q_error' = [kind |-> "Io", message |-> <<>>]
    /\ q_pc' = "error"
    /\ UNCHANGED <<notQueryVars, q_state, q_database, q_files, q_k, q_loaded,
                   q_collection, q_documents, q_index, q_output, q_searches>>

\* the comparison of results.sort_by: by score, then by file
result_less(a, b) ==
    \/ f64_lt(a[1], b[1])
    \/ /\ ~f64_lt(a[1], b[1])
       /\ ~f64_gt(a[1], b[1])
       /\ FileRank[a[2].file] < FileRank[b[2].file]

\* results.sort_by: a stable sort
RECURSIVE sort_results(_)
sort_results(r) ==
    IF Len(r) <= 1 THEN r
    ELSE LET rest == sort_results(Tail(r))
             less == {i \in 1..Len(rest) : result_less(rest[i], r[1])}
             n == Cardinality(less)
         IN  SubSeq(rest, 1, n) \o <<r[1]>> \o SubSeq(rest, n + 1, Len(rest))

\* Vec::reverse
reverse(r) == [i \in 1..Len(r) |-> r[Len(r) + 1 - i]]

\* DocumentCollection::compute_digest against a model to which the query file
\* was added first, as add_file does with a file of the corpus
collection_compute_digest_adds(dc, name) ==
    compute_document_digest(
        update_collection(dc, compute_document_frequencies(FileChunks[name]),
                          <<name>>),
        FileChunks[name])

\* DocumentCollection::compute_digest of a file that opens
collection_compute_digest(dc, name) ==
    compute_document_digest(dc, FileChunks[name])

\* the scores ranked_search hands to queue.insert, in the order of documents
ranked_scores(doc, documents) ==
    [i \in DOMAIN documents |-> cosine_distance(documents[i].digest, doc)]

\* one round of the loop of query_for_results: the digest of the query file,
\* ranked_search, sort, reverse, print; a panic when the file does not open
\* (.ok().unwrap()) or when get_elements panics
QueryFile ==
    /\ q_pc = "loop"
    /\ q_index <= Len(q_files)
    /\ LET file_name == q_files[q_index]
       IN  IF file_name = MissingFile
           THEN /\ q_pc' = "panic"
                /\ UNCHANGED <<q_index, q_output, q_searches>>
           ELSE LET document == collection_compute_digest(q_collection, file_name)
                    panics == ranked_search_panics(document, q_documents, q_k)
                    found == IF panics THEN <<>>
                             ELSE ranked_search(document, q_documents, q_k)
                    sorted_results == reverse(sort_results(found))
                IN  /\ q_searches' =
                          Append(q_searches,
                                 [file_name |-> file_name,
                                  document |-> document,
                                  scores |-> ranked_scores(document, q_documents),
                                  panicked |-> panics,
                                  found |-> found])
                    /\ IF panics
                       THEN /\ q_pc' = "panic"
                            /\ UNCHANGED <<q_index, q_output>>
                       ELSE /\ q_output' =
                                  Append(q_output,
                                         [file_name |-> file_name,
                                          lines |->
                                             [i \in 1..Len(sorted_results) |->
                                                 <<sorted_results[i][1],
                                                   sorted_results[i][2].file>>]])
                            /\ q_index' = q_index + 1
                            /\ q_pc' = q_pc
    /\ UNCHANGED <<notQueryVars, q_state, q_database, q_files, q_k, q_loaded,
                   q_collection, q_documents, q_error>>

\* the loop is over: query_for_results returns Ok(())
QueryReturn ==
    /\ q_pc = "loop"
    /\ q_index > Len(q_files)
    /\ q_pc' = "done"
    /\ UNCHANGED <<notQueryVars, q_state, q_database, q_files, q_k, q_loaded,
                   q_collection, q_documents, q_error, q_index, q_output,
                   q_searches>>

QueryNext ==
    \/ OpenStateAndDatabase
    \/ OpenFails
    \/ QueryFile
    \/ QueryReturn

SpecQuery == QueryInit /\ [][QueryNext]_vars

(***************************************************************************)
(* similarities.rs: a DocumentCollection built by calls of add_file and of *)
(* update_collection, on the files of testdata.                            *)
(***************************************************************************)
CollectionInit ==
    /\ c_collection = new_collection
    /\ c_ops = <<>>
    /\ ChunkerIdle
    /\ HeapIdle
    /\ IndexIdle
    /\ QueryIdle
    /\ CosineIdle
    /\ EqIdle

\* add_file(name), File::open succeeds (when add_file gets that far)
AddFile(name) ==
    /\ Len(c_ops) < MaxOps
    /\ LET r == add_file(c_collection, name, TRUE)
       IN  /\ c_collection' = r.dc
           /\ c_ops' = Append(c_ops, [op |-> "add_file", name |-> name,
                                      opens |-> TRUE, result |-> r.result])
    /\ UNCHANGED notCollectionVars

\* add_file(name), File::open fails (when add_file gets that far)
AddFileFails(name) ==
    /\ Len(c_ops) < MaxOps
    /\ LET r == add_file(c_collection, name, FALSE)
       IN  /\ c_collection' = r.dc
           /\ c_ops' = Append(c_ops, [op |-> "add_file", name |-> name,
                                      opens |-> FALSE, result |-> r.result])
    /\ UNCHANGED notCollectionVars

\* update_collection with the frequencies compute_document gave for a file
\* and the name of the file, as index_directory calls it
UpdateCollection(name) ==
    /\ Len(c_ops) < MaxOps
    /\ c_collection' =
          update_collection(c_collection, compute_document(name).file_frequencies,
                            <<name>>)
    /\ c_ops' = Append(c_ops, [op |-> "update_collection", name |-> name,
                               opens |-> TRUE, result |-> "merged"])
    /\ UNCHANGED notCollectionVars

CollectionNext ==
    \/ \E name \in TestFiles : AddFile(name)
    \/ \E name \in TestFiles : AddFileFails(name)
    \/ \E name \in TestFiles : UpdateCollection(name)

SpecCollection == CollectionInit /\ [][CollectionNext]_vars

(***************************************************************************)
(* similarities.rs: one call of cosine_similarity on two sparse vectors,   *)
(* their chunks in strictly ascending order as compute_document_digest     *)
(* leaves them, their weights positive, negative or zero.                  *)
(***************************************************************************)
\* the chunk keys of the vectors
Keys == 0..(MaxKeys - 1)

\* the weights of the vectors: -1.0, -0.2, 0.0, 0.2, 1.0
Weights == {-10000, -2000, 0, 2000, 10000}

\* the numbers of a set in ascending order
RECURSIVE ascending(_)
ascending(K) ==
    IF K = {} THEN <<>>
    ELSE LET m == CHOOSE x \in K : \A y \in K : x <= y
         IN  <<m>> \o ascending(K \ {m})

\* the sparse vector that holds weight w[k] for every key k of w
sparse_vector(w) ==
    LET ks == ascending(DOMAIN w)
    IN  [i \in 1..Len(ks) |-> <<U64FromSmall(ks[i]), w[ks[i]]>>]

SparseVectors ==
    {sparse_vector(w) : w \in UNION {[K -> Weights] : K \in SUBSET Keys}}

CosineInit ==
    /\ cs_pc = "call"
    /\ cs_vec1 \in SparseVectors
    /\ cs_vec2 \in SparseVectors
    /\ cs_norms = NoNorms
    /\ cs_result = 0
    /\ ChunkerIdle
    /\ HeapIdle
    /\ IndexIdle
    /\ QueryIdle
    /\ CollectionIdle
    /\ EqIdle

\* the call cosine_similarity(&vec1, &vec2)
CosineSimilarity ==
    /\ cs_pc = "call"
    /\ cs_norms' = IF Len(cs_vec1) = 0 \/ Len(cs_vec2) = 0 THEN NoNorms
                   ELSE cosine_norms(cs_vec1, cs_vec2)
    /\ cs_result' = cosine_similarity(cs_vec1, cs_vec2)
    /\ cs_pc' = "done"
    /\ UNCHANGED <<notCosineVars, cs_vec1, cs_vec2>>

CosineNext == CosineSimilarity

SpecCosine == CosineInit /\ [][CosineNext]_vars

(***************************************************************************)
(* similarities.rs: one comparison self == other of two collections, each  *)
(* built by update_collection from files of testdata                       *)
(***************************************************************************)
BuiltCollections ==
    {merge_messages(new_collection, names) :
        names \in SeqsUpTo(TestFiles, MaxEqFiles)}

EqInit ==
    /\ eq_pc = "call"
    /\ eq_self \in BuiltCollections
    /\ eq_other \in BuiltCollections
    /\ eq_ret = FALSE
    /\ ChunkerIdle
    /\ HeapIdle
    /\ IndexIdle
    /\ QueryIdle
    /\ CollectionIdle
    /\ CosineIdle

\* the call self == other
Eq ==
    /\ eq_pc = "call"
    /\ eq_ret' = eq(eq_self, eq_other)
    /\ eq_pc' = "done"
    /\ UNCHANGED <<notEqVars, eq_self, eq_other>>

EqNext == Eq

SpecEq == EqInit /\ [][EqNext]_vars

(***************************************************************************)
(* Claims about the heap                                                   *)
(***************************************************************************)
ScoresOf(s) == [i \in 1..Len(s) |-> s[i].score]

\* C1: with capacity k >= 1 the heap holds exactly the k smallest scores
\* inserted so far (all of them while fewer than k were inserted).
C1_HeapKeepsKSmallest ==
    heap_capacity >= 1 =>
        ScoresOf(get_elements(heap_data)) =
            SubSeq(ScoresOf(sort_by_score(inserted)), 1,
                   Min(heap_capacity, Len(inserted)))

\* C22: get_max returns the largest score the heap holds, and the data is a
\* max-heap (no element is larger than its parent), after every insert,
\* the calls of extract_max that insert makes included.
C22_GetMaxIsLargest ==
    heap_data # <<>> =>
        /\ \A i \in DOMAIN heap_data :
              ~f64_gt(heap_data[i].score, get_max(heap_data))
        /\ \A i \in 2..Len(heap_data) :
              ~f64_gt(heap_data[i].score, heap_data[i \div 2].score)

(***************************************************************************)
(* Claims about index_paths                                                *)
(***************************************************************************)
\* the corpus model the input paths determine
ModelOf(ps) == ModelOfWith(ps, unreadable)

\* the loop of index_paths over the paths is over
AfterLoop ==
    \/ pc = "paths" /\ cur > Len(paths)
    \/ pc \in {"snapshot", "finalize", "done"}

DocumentsOf(docs) == {docs[i] : i \in DOMAIN docs}

\* C2: after index_paths, every path in the model's files has exactly one
\* document record in the database, and every record's file is in files.
C2_OneRecordPerFile ==
    pc = "done" =>
        LET dc == deserialize_collection(state_file)
            docs == database.documents
        IN  /\ \A f \in dc.files :
                  Cardinality({i \in DOMAIN docs : docs[i].file = f}) = 1
            /\ \A i \in DOMAIN docs : docs[i].file \in dc.files

\* C6: whatever the order in which the workers finish and the messages are
\* merged, the corpus model after the loop and the set of document records
\* are the ones the input paths determine, and every record holds the chunk
\* sequence of its file in file order.
C6_OrderInsensitive ==
    /\ \A i \in DOMAIN results : results[i].chunks = FileChunks[results[i].file]
    /\ AfterLoop =>
          /\ document_collection = ModelOf(paths)
          /\ DocumentsOf(results) =
                {[file |-> f, chunks |-> FileChunks[f], digest |-> <<>>] :
                    f \in ModelOf(paths).files}
    /\ pc = "done" =>
          /\ deserialize_collection(state_file) = ModelOf(paths)
          /\ DocumentsOf(database.documents) =
                {[file |-> f, chunks |-> <<>>,
                  digest |-> compute_document_digest(ModelOf(paths), FileChunks[f])] :
                    f \in ModelOf(paths).files}

\* a finished run in which the messages were merged in another order than the
\* documents were returned
C6_Witness ==
    /\ pc = "done"
    /\ Len(results) >= 2
    /\ merged # [i \in DOMAIN results |-> results[i].file]

\* C7: the corpus model changes only in a step of the receiver loop, by
\* update_collection on the message taken from the channel; in particular
\* not while the workers hash, and while the digests are finalized the
\* snapshot they read is the unchanged model.
C7_OnlyMergeMutates ==
    /\ [][(document_collection' # document_collection) =>
             (/\ pc = "merge"
              /\ channel # <<>>
              /\ channel' = Tail(channel)
              /\ document_collection' =
                    update_collection(document_collection, Head(channel).hash,
                                      <<Head(channel).name>>))]_vars
    /\ [](pc = "finalize" => reference_collection = document_collection)

\* digests are being finalized after several merges
C7_Witness ==
    /\ pc = "finalize"
    /\ Len(merged) >= 2
    /\ \E i \in DOMAIN updated_results : updated_results[i].st = "some"
    /\ \E i \in DOMAIN updated_results : updated_results[i].st = "todo"

\* C8: every document record of the database has no chunks and the digest
\* that compute_document_digest gives for its file's chunk sequence on the
\* model after the files of all input paths were merged, which is the model
\* in the state file.
C8_DigestOnFinalModel ==
    pc = "done" =>
        /\ deserialize_collection(state_file) = ModelOf(paths)
        /\ \A i \in DOMAIN database.documents :
              LET doc == database.documents[i]
              IN  /\ doc.chunks = <<>>
                  /\ doc.digest =
                        compute_document_digest(
                            deserialize_collection(state_file), FileChunks[doc.file])

\* a finished run over two paths in which a document of the first path has
\* another digest than the model after the first path alone gives it
C8_Witness ==
    /\ pc = "done"
    /\ Len(paths) = 2
    /\ \E i \in DOMAIN database.documents :
          LET doc == database.documents[i]
          IN  /\ doc.file \in ModelOf(<<paths[1]>>).files
              /\ doc.digest # <<>>
              /\ doc.digest #
                    compute_document_digest(ModelOf(<<paths[1]>>), FileChunks[doc.file])

\* C9: the state file and the database of one index_paths run pass
\* verify_consistency when they are loaded.
C9_SameRunConsistent ==
    pc = "done" =>
        verify_consistency(deserialize_collection(state_file), database.documents)

\* a finished run in which a file did not open and others were indexed
C9_Witness ==
    /\ pc = "done"
    /\ \E i \in DOMAIN slots : slots[i].st = "none"
    /\ Len(database.documents) >= 2
    /\ verify_consistency(deserialize_collection(state_file), database.documents)

DocumentFiles(docs) == {docs[i].file : i \in DOMAIN docs}

\* the files the input paths cover, one entry per visit, whether they open or
\* not
Covered == VisitsWith(paths, {})

\* C21: a file that does not open is dropped and the run goes on: the worker
\* that fails to open it sends nothing and stops nothing, and a finished run
\* has no record and no path for it and counts no chunk of it, while every
\* file that opens has its path, its record and its chunks counted.
C21_UnreadableDropped ==
    /\ [][(\E i \in DOMAIN slots :
               /\ slots[i].st = "todo"
               /\ slots'[i].st = "none")
             => /\ pc' = "hash"
                /\ channel' = channel
                /\ document_collection' = document_collection]_vars
    /\ [](pc = "done" =>
            LET dc == deserialize_collection(state_file)
                opened == SelectSeq(Covered, LAMBDA f : f \notin unreadable)
            IN  /\ dc.files = {Covered[i] : i \in DOMAIN Covered} \ unreadable
                /\ DocumentFiles(database.documents) = dc.files
                /\ dc.collection_digests = count_chunks(AllChunks(opened)))

\* a finished run over a file that did not open and a file that did
C21_Witness ==
    /\ pc = "done"
    /\ \E i \in DOMAIN Covered : Covered[i] \in unreadable
    /\ \E i \in DOMAIN Covered : Covered[i] \notin unreadable
    /\ database.documents # <<>>

\* the names of the last n messages merged
LastMerged(n) == {merged[i] : i \in (Len(merged) - n + 1)..Len(merged)}

\* C24: every call of index_directory returns, and when it returns the
\* workers are done, no Sender is alive, the channel is empty and the messages
\* merged during the call are exactly the ones the workers sent, one per file
\* that opened.
C24_MergeLoopTerminates ==
    /\ (pc = "hash") ~> (pc = "paths")
    /\ (pc = "merge") ~> (pc = "paths")
    /\ [][(pc = "merge" /\ pc' = "paths") =>
             /\ \A i \in DOMAIN slots : slots[i].st # "todo"
             /\ ~senders
             /\ channel = <<>>
             /\ Len(merged) = Len(results) + Len(dir_results)
             /\ LastMerged(Len(dir_results)) = DocumentFiles(dir_results)
             /\ Cardinality(DocumentFiles(dir_results)) = Len(dir_results)]_vars

\* a call of index_directory has returned after its loop merged two messages
\* or more, sent in another order than the files were listed, a file of the
\* directory not opening
C24_Witness ==
    /\ pc = "paths"
    /\ cur = 2
    /\ Len(merged) >= 2
    /\ merged # [i \in DOMAIN results |-> results[i].file]
    /\ \E i \in DOMAIN slots : slots[i].st = "none"

\* the files of a sequence of document records, in order
DocumentsFileList(docs) == [i \in DOMAIN docs |-> docs[i].file]

\* how often x is an element of the sequence s
Occurrences(s, x) == Cardinality({i \in DOMAIN s : s[i] = x})

\* the chunk sequences of a sequence of document records, one after the other
RECURSIVE ChunksOfRecords(_)
ChunksOfRecords(docs) ==
    IF docs = <<>> THEN <<>>
    ELSE Head(docs).chunks \o ChunksOfRecords(Tail(docs))

\* C25: while index_directory runs, every file hashed with success has one
\* record (its slot) and one message, sent and waiting or merged; after the
\* loop over the paths every record returned has been merged exactly once and
\* the count of every chunk is the number of its occurrences in the chunk
\* sequences of the records returned.
C25_OneRecordOneMessage ==
    /\ pc \in {"hash", "merge"} =>
          \A f \in Files :
              Occurrences([i \in DOMAIN slots |->
                              IF slots[i].st = "some" THEN slots[i].doc.file ELSE ""], f)
                = Occurrences([i \in DOMAIN channel |-> channel[i].name], f)
                  + Occurrences(merged, f) - Occurrences(DocumentsFileList(results), f)
    /\ AfterLoop =>
          /\ \A f \in Files :
                Occurrences(merged, f) = Occurrences(DocumentsFileList(results), f)
          /\ DOMAIN document_collection.collection_digests =
                {ChunksOfRecords(results)[i] : i \in DOMAIN ChunksOfRecords(results)}
          /\ \A c \in DOMAIN document_collection.collection_digests :
                document_collection.collection_digests[c] =
                    Occurrences(ChunksOfRecords(results), c)

\* a finished loop over two records or more that share a chunk
C25_Witness ==
    /\ AfterLoop
    /\ Len(results) >= 2
    /\ \E c \in DOMAIN document_collection.collection_digests :
          /\ document_collection.collection_digests[c] >= 2
          /\ \E i, j \in DOMAIN results :
                /\ i # j
                /\ Occurrences(results[i].chunks, c) >= 1
                /\ Occurrences(results[j].chunks, c) >= 1

\* C27: every document record of the database has in its digest exactly one
\* entry for each distinct chunk of its file's chunk sequence, and every such
\* chunk is counted in the model of the state file, its count at least its
\* frequency in the document and at least 1.
C27_NoEntryDropped ==
    pc = "done" =>
        \A i \in DOMAIN database.documents :
            LET doc == database.documents[i]
                chunks == FileChunks[doc.file]
                counts == deserialize_collection(state_file).collection_digests
            IN  /\ {doc.digest[j][1] : j \in DOMAIN doc.digest}
                      = {chunks[j] : j \in DOMAIN chunks}
                /\ Len(doc.digest) = Cardinality({chunks[j] : j \in DOMAIN chunks})
                /\ \A j \in DOMAIN chunks :
                      /\ chunks[j] \in DOMAIN counts
                      /\ counts[chunks[j]] >= Occurrences(chunks, chunks[j])
                      /\ counts[chunks[j]] >= 1

\* a database with a record of two entries, a record with an entry of weight
\* 0, and a chunk counted more often than one of its documents holds it
C27_Witness ==
    /\ pc = "done"
    /\ \E i \in DOMAIN database.documents : Len(database.documents[i].digest) >= 2
    /\ \E i \in DOMAIN database.documents :
          \E j \in DOMAIN database.documents[i].digest :
              database.documents[i].digest[j][2] = 0
    /\ \E i \in DOMAIN database.documents :
          LET chunks == FileChunks[database.documents[i].file]
          IN  \E j \in DOMAIN chunks :
                  deserialize_collection(state_file).collection_digests[chunks[j]]
                      > Occurrences(chunks, chunks[j])

(***************************************************************************)
(* Claims about the query pipeline                                         *)
(***************************************************************************)
\* C10: open_state_and_database succeeds only if the paths of the loaded model
\* are exactly the files of the loaded documents; on a mismatch the call
\* returns an InvalidInput error whose message holds the state path and the
\* database path, and nothing is printed for any query file.
C10_ConsistencyChecked ==
    /\ q_pc \in {"loop", "done", "panic"} =>
          q_collection.files = DocumentFiles(q_documents)
    /\ (q_loaded /\ q_collection.files # DocumentFiles(q_documents)) =>
          /\ q_pc = "error"
          /\ q_error.kind = "InvalidInput"
          /\ \E i \in DOMAIN q_error.message : q_error.message[i] = StatePath
          /\ \E i \in DOMAIN q_error.message : q_error.message[i] = DatabasePath
          /\ q_output = <<>>

\* a state file with more paths than the database has documents for is
\* rejected although query files were given
C10_Witness ==
    /\ q_pc = "error"
    /\ q_error.kind = "InvalidInput"
    /\ q_files # <<>>
    /\ DocumentFiles(q_documents) # {}
    /\ DocumentFiles(q_documents) \subseteq q_collection.files
    /\ DocumentFiles(q_documents) # q_collection.files

\* the state file and the database are those of one index run
SameRun ==
    \E ps \in SeqsUpTo(InputPaths, MaxCorpusPaths) :
        /\ q_state = serialize_collection(ModelOfWith(ps, {}))
        /\ q_database = DatabaseOfWith(ps, {})

\* a <= b on f64: false when either is NaN
f64_le(a, b) == a # NaN /\ b # NaN /\ a <= b

\* C11: after indexing, a ranked search (k >= 1) with the digest of an indexed
\* file returns that file first, and its distance is no larger than the
\* distance of any document of the database.
C11_SelfIsBest ==
    \A i \in DOMAIN q_searches :
        LET s == q_searches[i]
        IN  (SameRun /\ q_k >= 1 /\ s.file_name \in q_collection.files) =>
                /\ ~s.panicked
                /\ Len(s.found) >= 1
                /\ s.found[1][2].file = s.file_name
                /\ \A j \in DOMAIN s.scores : f64_le(s.found[1][1], s.scores[j])

\* the state file and the database each index run over input paths leaves
IndexRuns ==
    {<<serialize_collection(ModelOfWith(ps, {})), DatabaseOfWith(ps, {})>> :
        ps \in SeqsUpTo(InputPaths, MaxCorpusPaths)}

\* the records of the database that carry the given file
StoredFor(file_name) ==
    {j \in DOMAIN q_documents : q_documents[j].file = file_name}

C12_BestPrintedFirst ==
    \A b \in DOMAIN q_output :
        \A i, j \in DOMAIN q_output[b].lines :
            i < j => f64_le(q_output[b].lines[i][1], q_output[b].lines[j][1])

\* C13: among the result lines of one query file that have the same distance,
\* the file paths are in ascending order.
C13_TiesByAscendingPath ==
    \A b \in DOMAIN q_output :
        \A i, j \in DOMAIN q_output[b].lines :
            (/\ i < j
             /\ q_output[b].lines[i][1] # NaN
             /\ q_output[b].lines[i][1] = q_output[b].lines[j][1]) =>
                FileRank[q_output[b].lines[i][2]] <= FileRank[q_output[b].lines[j][2]]

\* C14: a query file that does not open does not end the call: the query
\* files after it are still processed.  A panic ends query_for_results for
\* good, so the call never panics at a file that does not open while a query
\* file that opens is still to come.
C14_UnreadableQueryConfined ==
    (q_pc = "panic" /\ q_files[q_index] = MissingFile) =>
        \A j \in (q_index + 1)..Len(q_files) : q_files[j] = MissingFile

\* C15: a ranked_search that returns, with limit k over n documents, returns
\* exactly min(k, n) results (the elements its heap holds at the end), so the
\* heap holds at most k elements.
C15_MinOfKAndN ==
    \A i \in DOMAIN q_searches :
        ~q_searches[i].panicked =>
            Len(q_searches[i].found) = Min(q_k, Len(q_documents))

\* the distinct chunks of a file
ChunksOf(file_name) ==
    {FileChunks[file_name][j] : j \in DOMAIN FileChunks[file_name]}

\* the chunks the model counts, with a count above 0
Counted(dc) ==
    {c \in DOMAIN dc.collection_digests : dc.collection_digests[c] > 0}

\* C19: the digest of a query file D against the loaded corpus model has its
\* chunks in strictly ascending order and holds exactly the distinct chunks of
\* D that the model counts with a count above 0: no entry for a chunk of D the
\* model does not have, no entry for a chunk outside D, no chunk twice.
C19_DigestEntries ==
    \A i \in DOMAIN q_searches :
        LET digest == q_searches[i].document
        IN  /\ \A a, b \in DOMAIN digest :
                  a < b => u64_lt(digest[a][1], digest[b][1])
            /\ {digest[a][1] : a \in DOMAIN digest}
                  = ChunksOf(q_searches[i].file_name) \cap Counted(q_collection)

\* a digest of two entries or more, of a file that has a chunk the model
\* counts and a chunk the model does not have
C19_Witness ==
    \E i \in DOMAIN q_searches :
        /\ Len(q_searches[i].document) >= 1
        /\ ChunksOf(q_searches[i].file_name) \ DOMAIN q_collection.collection_digests # {}
        /\ \E j \in DOMAIN q_searches : Len(q_searches[j].document) >= 2

\* C20: cosine_similarity does not divide by zero (a vector of norm 0 gives
\* 0), so every distance ranked_search hands to the heap is a finite number.
C20_FiniteDistances ==
    \A i \in DOMAIN q_searches :
        \A j \in DOMAIN q_searches[i].scores :
            f64_is_finite(q_searches[i].scores[j])

(***************************************************************************)
(* Claims about cosine_similarity                                          *)
(***************************************************************************)
\* the weight of key k in a sparse vector, 0 when the vector has no entry
weight_or_zero(vec, k) ==
    LET at == {i \in DOMAIN vec : vec[i][1] = U64FromSmall(k)}
    IN  IF at = {} THEN 0 ELSE vec[CHOOSE i \in at : TRUE][2]

\* the sum over the keys K of u_k * v_k
RECURSIVE dot(_, _, _)
dot(K, u, v) ==
    IF K = {} THEN 0
    ELSE LET k == CHOOSE x \in K : TRUE
         IN  f64_mul(weight_or_zero(u, k), weight_or_zero(v, k)) + dot(K \ {k}, u, v)

\* -u
negated(u) == [i \in DOMAIN u |-> <<u[i][1], 0 - u[i][2]>>]

\* a is b, up to two units of the last decimal
f64_approx_eq(a, b) == f64_is_finite(a) /\ a - b <= 2 /\ b - a <= 2

\* the three sums of the call and the quotient the claim gives
CosineAsClaimed(nonzero_only) ==
    (cs_pc = "done" /\ cs_vec1 # <<>> /\ cs_vec2 # <<>>) =>
        LET sum_uu == dot(Keys, cs_vec1, cs_vec1)
            sum_vv == dot(Keys, cs_vec2, cs_vec2)
            sum_uv == dot(Keys, cs_vec1, cs_vec2)
        IN  /\ cs_norms = [norm_a |-> sum_uu, norm_b |-> sum_vv, norm_prod |-> sum_uv]
            /\ cs_result = f64_div(sum_uv, f64_mul(f64_sqrt(sum_uu), f64_sqrt(sum_vv)))
            /\ cs_vec2 = cs_vec1 =>
                  /\ sum_uv = sum_uu
                  /\ sum_vv = sum_uu
                  /\ (nonzero_only => sum_uu > 0) => f64_approx_eq(cs_result, 10000)
            /\ cs_vec2 = negated(cs_vec1) =>
                  /\ sum_uv = 0 - sum_uu
                  /\ sum_vv = sum_uu
                  /\ (nonzero_only => sum_uu > 0) => f64_approx_eq(cs_result, -10000)
            /\ cs_result = cosine_similarity(cs_vec2, cs_vec1)

C30_EqualMeansSameContents ==
    (eq_pc = "done" /\ eq_ret) =>
        /\ eq_self.files = eq_other.files
        /\ eq_self.collection_digests = eq_other.collection_digests

(***************************************************************************)
(* Claims about DocumentCollection                                         *)
(***************************************************************************)
\* the call the step made, when it made one
LastOp == c_ops'[Len(c_ops')]

\* C16: add_file of a path that is in files returns None and leaves files and
\* the chunk counts as they were; add_file of a path that is not in files and
\* does not open returns an error and leaves the collection as it was.
C16_AddFileFrame ==
    [][(Len(c_ops') = Len(c_ops) + 1 /\ LastOp.op = "add_file") =>
          /\ LastOp.name \in c_collection.files =>
                (LastOp.result = "none" /\ c_collection' = c_collection)
          /\ (LastOp.name \notin c_collection.files /\ ~LastOp.opens) =>
                (LastOp.result = "err" /\ c_collection' = c_collection)]_vars

\* a file was added, added again, and an add_file of another file failed
C16_Witness ==
    /\ \E i \in DOMAIN c_ops : c_ops[i].op = "add_file" /\ c_ops[i].result = "none"
    /\ \E i \in DOMAIN c_ops : c_ops[i].op = "add_file" /\ c_ops[i].result = "err"
    /\ c_collection.files # {}

\* the calls that merged a chunk sequence into the collection
MergedOps == SelectSeq(c_ops, LAMBDA o : o.result \in {"some", "merged"})

\* the number of positions of the chunk sequence of a test file that hold c
ChunkOccurrences ==
    [f \in TestFiles |->
        [c \in {FileChunks[f][i] : i \in DOMAIN FileChunks[f]} |->
            Cardinality({i \in DOMAIN FileChunks[f] : FileChunks[f][i] = c})]]

\* the occurrences of c in the chunk sequences merged by the calls from i on
RECURSIVE TotalOccurrences(_, _, _)
TotalOccurrences(ops, i, c) ==
    IF i > Len(ops) THEN 0
    ELSE (IF c \in DOMAIN ChunkOccurrences[ops[i].name]
          THEN ChunkOccurrences[ops[i].name][c] ELSE 0)
         + TotalOccurrences(ops, i + 1, c)

\* C17: after any sequence of add_file and update_collection calls, the keys
\* of the chunk counts are the chunks of the sequences merged, each count is
\* the total number of occurrences of its chunk in these sequences, and no
\* count is 0.
C17_CountsAreOccurrences ==
    LET counts == c_collection.collection_digests
        chunks == UNION {DOMAIN ChunkOccurrences[MergedOps[i].name] :
                            i \in DOMAIN MergedOps}
    IN  /\ DOMAIN counts = chunks
        /\ \A c \in chunks :
              /\ counts[c] = TotalOccurrences(MergedOps, 1, c)
              /\ counts[c] > 0

\* a file was merged by add_file and merged again by update_collection, and
\* a second file was merged
C17_Witness ==
    /\ \E i, j \in DOMAIN c_ops :
          /\ c_ops[i].result = "some"
          /\ c_ops[j].result = "merged"
          /\ c_ops[i].name = c_ops[j].name
    /\ Cardinality({MergedOps[i].name : i \in DOMAIN MergedOps}) >= 2

\* the orders in which the files of a set can be taken
Orders(S) ==
    {o \in [1..Cardinality(S) -> S] :
        \A i, j \in 1..Cardinality(S) : o[i] = o[j] => i = j}

\* the names of the calls made so far, in the order of the calls
OpNames == [i \in DOMAIN c_ops |-> c_ops[i].name]

\* every call so far was an add_file of a file not yet known that opened
SequentialOps ==
    \A i \in DOMAIN c_ops : c_ops[i].op = "add_file" /\ c_ops[i].result = "some"

\* every call so far was an update_collection, one per file
PipelineOps ==
    /\ \A i \in DOMAIN c_ops : c_ops[i].op = "update_collection"
    /\ \A i, j \in DOMAIN c_ops : c_ops[i].name = c_ops[j].name => i = j

\* C29: for distinct files that open, the collection built by add_file, one
\* call per file in any order, and the collection built by compute_document
\* per file and update_collection per message, in any order, have the same
\* files and the same chunk counts, and the documents have the same chunk
\* sequences.
C29_SequentialEqualsPipeline ==
    LET names == {c_ops[i].name : i \in DOMAIN c_ops}
    IN  /\ SequentialOps =>
              LET seq == index_directory_sequential(new_collection, OpNames, <<>>)
              IN  /\ ~seq.panicked
                  /\ seq.dc = c_collection
                  /\ Len(seq.results) = Len(c_ops)
                  /\ \A i \in DOMAIN c_ops :
                        /\ seq.results[i].file = c_ops[i].name
                        /\ seq.results[i].chunks =
                              compute_document(c_ops[i].name).document.chunks
                  /\ \A o \in Orders(names) :
                        LET par == merge_messages(new_collection, o)
                        IN  /\ par.files = c_collection.files
                            /\ par.collection_digests =
                                  c_collection.collection_digests
        /\ PipelineOps =>
              \A o \in Orders(names) :
                  LET seq == index_directory_sequential(new_collection, o, <<>>)
                  IN  /\ ~seq.panicked
                      /\ seq.dc.files = c_collection.files
                      /\ seq.dc.collection_digests =
                            c_collection.collection_digests

\* three files were added by add_file, and a chunk that two of them share
\* has a count above its number of occurrences in any one of them
C29_Witness ==
    /\ SequentialOps
    /\ Len(c_ops) = 3
    /\ \E c \in DOMAIN c_collection.collection_digests :
          /\ Cardinality({f \in TestFiles : c \in DOMAIN ChunkOccurrences[f]}) >= 2
          /\ \A f \in TestFiles :
                c \in DOMAIN ChunkOccurrences[f] =>
                    c_collection.collection_digests[c] > ChunkOccurrences[f][c]

\* every file of the set was merged by exactly one call, and no other file
BuiltFrom(names) ==
    /\ {MergedOps[i].name : i \in DOMAIN MergedOps} = names
    /\ Len(MergedOps) = Cardinality(names)

\* C18: the collection built from testfile-yes.bin and testfile-zero.bin has
\* the counts {0: 506, 2879926931474365: 253, 33279275454869446: 253}; built
\* from the three test files, the empty file adding its one chunk 0, it has
\* {0: 507, 2879926931474365: 253, 33279275454869446: 253}; in both, files
\* is the sorted list of the paths.
C18_TestdataCounts ==
    /\ BuiltFrom({"testdata/testfile-yes.bin", "testdata/testfile-zero.bin"}) =>
          /\ c_collection.collection_digests =
                (<<0, 0, 0, 0>> :> 506) @@ (<<51133, 15802, 15175, 10>> :> 253)
                @@ (<<44998, 8158, 15187, 118>> :> 253)
          /\ serialize_collection(c_collection).files =
                <<"testdata/testfile-yes.bin", "testdata/testfile-zero.bin">>
    /\ BuiltFrom(TestFiles) =>
          /\ c_collection.collection_digests =
                (<<0, 0, 0, 0>> :> 507) @@ (<<51133, 15802, 15175, 10>> :> 253)
                @@ (<<44998, 8158, 15187, 118>> :> 253)
          /\ serialize_collection(c_collection).files =
                <<"testdata/testfile-yes.bin", "testdata/testfile-zero-length",
                  "testdata/testfile-zero.bin">>

\* the collection was built from the three test files by add_file
C18_Witness ==
    /\ BuiltFrom(TestFiles)
    /\ \A i \in DOMAIN c_ops : c_ops[i].op = "add_file" /\ c_ops[i].result = "some"

\* C18 as stated: the collection built from the three test files has the
\* counts {0: 506, 2879926931474365: 253, 33279275454869446: 253}.
C18_AsStated ==
    BuiltFrom(TestFiles) =>
        /\ c_collection.collection_digests =
              (<<0, 0, 0, 0>> :> 506) @@ (<<51133, 15802, 15175, 10>> :> 253)
              @@ (<<44998, 8158, 15187, 118>> :> 253)
        /\ serialize_collection(c_collection).files =
              <<"testdata/testfile-yes.bin", "testdata/testfile-zero-length",
                "testdata/testfile-zero.bin">>

(***************************************************************************)
(* Claims about the chunker                                                *)
(***************************************************************************)
\* the window of the file at byte offset i, right-padded with zero bytes
WindowAt(f, i) ==
    [j \in 1..CHUNK_SIZE |-> IF i + j <= Len(f) THEN f[i + j] ELSE 0]

\* C3: every chunk the rolling update emitted (position i >= 1) carries the
\* digest that the direct polynomial formula gives for the bytes [i, i+W) of
\* the file.
C3_RollingEqualsDirect ==
    \A j \in 2..Len(emitted) :
        /\ (j - 1) + CHUNK_SIZE <= Len(file)
        /\ emitted[j].digest = compute_digest(WindowAt(file, j - 1))

\* a rolled chunk whose dropped byte is the largest byte and whose digest is
\* not zero
C3_Witness ==
    /\ Len(emitted) >= 2
    /\ file[1] = 255
    /\ emitted[2].digest # U64Zero
    /\ emitted[2].digest # emitted[1].digest

\* C4: when the chunker has read a file of L bytes to its end (no read failed),
\* it has emitted L - W + 1 chunks if L >= W and one chunk if L < W, that one
\* chunk's window being the file's bytes right-padded with zero bytes (digest 0
\* for the empty file); the chunk numbers are 0, 1, 2, ...
C4_ChunkCount ==
    /\ \A j \in 1..Len(collected) : collected[j].number = j - 1
    /\ ended = "eof" =>
        /\ Len(collected) =
              IF Len(file) >= CHUNK_SIZE THEN Len(file) - CHUNK_SIZE + 1 ELSE 1
        /\ Len(file) < CHUNK_SIZE =>
              /\ chunk_content.content = WindowAt(file, 0)
              /\ collected[1].digest = compute_digest(WindowAt(file, 0))
        /\ Len(file) = 0 => collected[1].digest = U64Zero

\* a file longer than the window, read to its end
C4_Witness ==
    /\ ended = "eof"
    /\ Len(file) > CHUNK_SIZE
    /\ Len(collected) = Len(file) - CHUNK_SIZE + 1

\* a file shorter than the window, read to its end
C4_WitnessShort ==
    /\ ended = "eof"
    /\ Len(file) \in 1..(CHUNK_SIZE - 1)
    /\ Len(collected) = 1

\* C5: once the first read has returned fewer than W bytes (and the padded
\* chunk is emitted), no call of next() returns a further chunk.
C5_ShortFileStops ==
    [][(first_read >= 0 /\ first_read < CHUNK_SIZE) =>
          (Len(emitted) = 1 /\ emitted' = emitted)]_vars

\* the short file's chunk is out and a later call of next() has returned None
C5_Witness ==
    /\ first_read \in 1..(CHUNK_SIZE - 1)
    /\ Len(emitted) = 1
    /\ emitted[1].digest = compute_digest(WindowAt(file, 0))
    /\ ended = "eof"

\* the polynomial of a window without any reduction, from element i on: its
\* value and whether a product or a sum did not fit 64 bits
RECURSIVE polynomial_from(_, _, _)
polynomial_from(content, i, h) ==
    IF i > CHUNK_SIZE THEN h
    ELSE LET term == MulSmallExact(content[i], A_pow(CHUNK_SIZE - i))
             sum == AddExact(h.value, Low64(term))
         IN  polynomial_from(content, i + 1,
                 [value |-> Low64(sum),
                  fits |-> h.fits /\ term[5] = 0 /\ sum[5] = 0])

polynomial(content) == polynomial_from(content, 1, [value |-> U64Zero, fits |-> TRUE])

\* C26: for the window the chunker holds and its digest H, the polynomial of
\* the window fits 64 bits, is below the modulus and is H; and for the oldest
\* byte of the window and every new byte (of the bytes the files are made of,
\* the largest byte among them), A * H and b_old * A^W fit 64 bits, A * H is
\* not below b_old * A^W, and A * H - b_old * A^W + b_new fits 64 bits and is
\* below the modulus.
C26_NoOverflow ==
    last_chunk.some =>
        LET H == last_chunk.digest
            b_old == chunk_content.content[1]
            p == polynomial(chunk_content.content)
            ah == MulSmallExact(A, H)
            bm == MulSmallExact(b_old, max_a)
            diff == wrapping_sub(Low64(ah), Low64(bm))
        IN  /\ p.fits
            /\ u64_lt(p.value, MODULUS)
            /\ p.value = H
            /\ ah[5] = 0
            /\ bm[5] = 0
            /\ ~u64_lt(Low64(ah), Low64(bm))
            /\ \A b_new \in Bytes :
                  LET sum == AddExact(diff, U64FromSmall(b_new))
                  IN  sum[5] = 0 /\ u64_lt(Low64(sum), MODULUS)

\* a window of the largest byte only, rolled in byte by byte
C26_Witness ==
    /\ last_chunk.some
    /\ Len(emitted) >= 2
    /\ \A i \in 1..CHUNK_SIZE : chunk_content.content[i] = 255
    /\ last_chunk.digest = polynomial(chunk_content.content).value

====
